---------------------------- MODULE Spec2Model ----------------------------
(***************************************************************************)
(* A model of libs/tex/generate_texture_atlases.cpp: the atlas sizing      *)
(* heuristic (calculate_texture_size), the packing loop                    *)
(* (generate_texture_atlases) and the TextureAtlas operations (insert,     *)
(* apply_edge_padding, merge_texcoords, finalize).                         *)
(*                                                                         *)
(* TLC integers are signed 32 bit.  The unsigned 32 bit accumulator        *)
(* total_area is therefore kept as two 16 bit limbs [hi, lo]; all other    *)
(* quantities of the model stay below 2^31.                                *)
(***************************************************************************)
EXTENDS Integers, Sequences, FiniteSets, TLC

VARIABLES cts, gen, atlas, pad, texture_atlases, ret

vars == <<cts, gen, atlas, pad, texture_atlases, ret>>

(***************************************************************************)
(* Program constants.                                                      *)
(***************************************************************************)
MAX_TEXTURE_SIZE == 32768
MIN_TEXTURE_SIZE == 256

(***************************************************************************)
(* Bounds of the model.                                                    *)
(***************************************************************************)
\* longest patch list of mixed patches given to the sizing heuristic
MaxPatches == 3
\* longest list of equal large patches given to the sizing heuristic
MaxRun == 17

Min(a, b) == IF a < b THEN a ELSE b
Max(a, b) == IF a > b THEN a ELSE b

\* 2^16, the weight of the high limb of a 32 bit unsigned int
Limb == 256 * 256

(***************************************************************************)
(* Values that a frame or object has while it is not in use.               *)
(***************************************************************************)
IdleCts == [pc |-> "idle"]
IdleGen == [pc |-> "idle"]
IdleAtlas == [state |-> "none"]
IdlePad == [pc |-> "idle"]
\* no call of an atlas operation has been made
NoCall == [op |-> "none", val |-> "none"]

(***************************************************************************)
(* TexturePatch: the accessors the code uses.                              *)
(***************************************************************************)
get_width(texture_patch) == texture_patch.width
get_height(texture_patch) == texture_patch.height
get_size(texture_patch) == get_width(texture_patch) * get_height(texture_patch)

SizePatch(w, h) == [width |-> w, height |-> h]

(***************************************************************************)
(* calculate_texture_size                                                  *)
(***************************************************************************)
\* unsigned int total_area = 0;
U32Zero == [hi |-> 0, lo |-> 0]

\* total_area += area, in unsigned 32 bit arithmetic (0 <= area < 2^31)
U32Add(t, area) ==
    LET lo == t.lo + (area % Limb)
        hi == t.hi + (area \div Limb) + (lo \div Limb)
    IN  [hi |-> hi % Limb, lo |-> lo % Limb]

\* t <= n for an unsigned 32 bit t and 0 <= n < 2^31
U32Leq(t, n) == t.hi < 32768 /\ t.hi * Limb + t.lo <= n

\* unsigned int padding = std::min(size >> 7, 32U);
cts_padding_unclamped(size) == size \div 128
cts_padding(size) == Min(size \div 128, 32)

\* the state of the scan before the first patch
ScanStart == [total_area |-> U32Zero, max_width |-> 0, max_height |-> 0]

\* static_cast<double>(waste) / texture_patch->get_size() > 1.0
\* (both are integers below 2^31, exactly representable as doubles, and a
\* quotient of such integers exceeds 1.0 exactly when waste > size; a size
\* of 0 gives +inf, which also exceeds 1.0, and waste > 0 = size)
waste_dominates(waste, texture_patch) == waste > get_size(texture_patch)

\* the for loop over texture_patches, from the i-th patch on
RECURSIVE scan_patches(_, _, _, _)
scan_patches(texture_patches, padding, i, acc) ==
    IF i > Len(texture_patches) THEN acc
    ELSE LET texture_patch == texture_patches[i]
             width == get_width(texture_patch) + 2 * padding
             height == get_height(texture_patch) + 2 * padding
             seen == [acc EXCEPT !.max_width = Max(@, width),
                                 !.max_height = Max(@, height)]
             area == width * height
             waste == area - get_size(texture_patch)
         IN  IF waste_dominates(waste, texture_patch) THEN seen
             ELSE scan_patches(texture_patches, padding, i + 1,
                      [seen EXCEPT !.total_area = U32Add(@, area)])

\* static_cast<double>(total_area) / (double(size) * size) < 0.2
\* (size * size is a power of two, so the quotient is exact and a multiple of
\* 2^-30; it never lies between 1/5 and the double nearest to 0.2, and never
\* equals 1/5, hence the test is total_area <= floor(size * size / 5))
area_below_fifth(total_area, size) == U32Leq(total_area, (size * size) \div 5)

\* the condition of the if that halves the candidate
cts_shrinks(scan, size) ==
    /\ scan.max_height < size \div 2
    /\ scan.max_width < size \div 2
    /\ area_below_fifth(scan.total_area, size)

\* size = size / 2;
cts_halve_stuck(size) == size
cts_halve(size) == size \div 2

\* unsigned int size = MAX_TEXTURE_SIZE;
CtsEnter(texture_patches) ==
    [pc |-> "loop", texture_patches |-> texture_patches,
     size |-> MAX_TEXTURE_SIZE, result |-> 0]

\* one iteration of while (true): scan, then return or halve
CtsBody(c) ==
    LET scan == scan_patches(c.texture_patches, cts_padding(c.size), 1, ScanStart)
    IN  IF c.size <= MIN_TEXTURE_SIZE
        THEN [c EXCEPT !.pc = "done", !.result = MIN_TEXTURE_SIZE]
        ELSE IF cts_shrinks(scan, c.size)
        THEN [c EXCEPT !.size = cts_halve(c.size)]
        ELSE [c EXCEPT !.pc = "done", !.result = c.size]

\* the function as a whole, as its callers see it
RECURSIVE CtsRun(_)
CtsRun(c) == IF c.pc = "done" THEN c.result ELSE CtsRun(CtsBody(c))
calculate_texture_size(texture_patches) == CtsRun(CtsEnter(texture_patches))

CtsReturnMin ==
    /\ cts.pc = "loop"
    /\ cts.size <= MIN_TEXTURE_SIZE
    /\ cts' = CtsBody(cts)
    /\ UNCHANGED <<gen, atlas, pad, texture_atlases, ret>>

CtsHalve ==
    /\ cts.pc = "loop"
    /\ cts.size > MIN_TEXTURE_SIZE
    /\ CtsBody(cts).pc = "loop"
    /\ cts' = CtsBody(cts)
    /\ UNCHANGED <<gen, atlas, pad, texture_atlases, ret>>

CtsReturnSize ==
    /\ cts.pc = "loop"
    /\ cts.size > MIN_TEXTURE_SIZE
    /\ CtsBody(cts).pc = "done"
    /\ cts' = CtsBody(cts)
    /\ UNCHANGED <<gen, atlas, pad, texture_atlases, ret>>

(***************************************************************************)
(* Inputs of the sizing heuristic: lists of up to MaxPatches patches drawn *)
(* from SizePatches, in any order, and lists of up to MaxRun copies of one *)
(* large patch.                                                            *)
(***************************************************************************)
SizePatches ==
    { SizePatch(10, 10), SizePatch(130, 130), SizePatch(200, 200),
      SizePatch(1000, 1000), SizePatch(4000, 3000),
      SizePatch(16319, 100), SizePatch(16320, 100), SizePatch(100, 16319),
      SizePatch(20000, 20000) }

RunPatch == SizePatch(16000, 16000)

SeqsUpTo(S, n) == UNION { [1..k -> S] : k \in 0..n }

SizeInputs ==
    SeqsUpTo(SizePatches, MaxPatches)
        \cup { [i \in 1..k |-> RunPatch] : k \in 1..MaxRun }

InitSize ==
    /\ cts \in { CtsEnter(ps) : ps \in SizeInputs }
    /\ gen = IdleGen
    /\ atlas = IdleAtlas
    /\ pad = IdlePad
    /\ texture_atlases = <<>>
    /\ ret = NoCall

NextSize == CtsReturnMin \/ CtsHalve \/ CtsReturnSize

SpecSize == InitSize /\ [][NextSize]_vars

\* the function runs to completion once called
FairSpecSize == SpecSize /\ WF_vars(NextSize)

(***************************************************************************)
(* C3.  The reference the claim gives for calculate_texture_size, in       *)
(* unbounded arithmetic (a sum is kept as [hi, lo] with lo < 2^16 and hi   *)
(* unbounded).                                                             *)
(***************************************************************************)
RefCandidates == <<32768, 16384, 8192, 4096, 2048, 1024, 512>>

RefPadding(s) == Min(s \div 128, 32)
RefPaddedW(q, p) == q.width + 2 * p
RefPaddedH(q, p) == q.height + 2 * p
RefPaddedArea(q, p) == RefPaddedW(q, p) * RefPaddedH(q, p)

\* the waste ratio of patch q exceeds 1.0
RefWasteful(q, p) ==
    RefPaddedArea(q, p) - q.width * q.height > q.width * q.height

\* position of the first wasteful patch, Len + 1 when there is none
RefStop(ps, p) ==
    LET bad == { i \in 1..Len(ps) : RefWasteful(ps[i], p) }
    IN  IF bad = {} THEN Len(ps) + 1
        ELSE CHOOSE i \in bad : \A j \in bad : i <= j

RefMaxOf(S) == IF S = {} THEN 0 ELSE CHOOSE m \in S : \A n \in S : n <= m

RefMaxW(ps, p) ==
    RefMaxOf({ RefPaddedW(ps[i], p) : i \in 1..Min(RefStop(ps, p), Len(ps)) })
RefMaxH(ps, p) ==
    RefMaxOf({ RefPaddedH(ps[i], p) : i \in 1..Min(RefStop(ps, p), Len(ps)) })

RECURSIVE RefSum(_, _, _)
RefSum(ps, p, k) ==
    IF k = 0 THEN [hi |-> 0, lo |-> 0]
    ELSE LET t == RefSum(ps, p, k - 1)
             a == RefPaddedArea(ps[k], p)
             lo == t.lo + (a % Limb)
         IN  [hi |-> t.hi + (a \div Limb) + (lo \div Limb), lo |-> lo % Limb]

\* the area of the patches before the first wasteful one
RefTotal(ps, p) == RefSum(ps, p, RefStop(ps, p) - 1)

\* total < 20% of s * s, i.e. 5 * total < s * s
RefBelowFifth(t, s) == t.hi < 4096 /\ 5 * (t.hi * Limb + t.lo) < s * s

RefGoesOn(ps, s) ==
    LET p == RefPadding(s)
    IN  /\ RefMaxW(ps, p) < s \div 2
        /\ RefMaxH(ps, p) < s \div 2
        /\ RefBelowFifth(RefTotal(ps, p), s)

RefSize(ps) ==
    LET kept == { i \in 1..Len(RefCandidates) : ~RefGoesOn(ps, RefCandidates[i]) }
    IN  IF kept = {} THEN 256
        ELSE RefCandidates[CHOOSE i \in kept : \A j \in kept : i <= j]

\* the accumulated area stays below 2^32 at every candidate size
RefNoWrap(ps) ==
    \A i \in 1..Len(RefCandidates) :
        RefTotal(ps, RefPadding(RefCandidates[i])).hi < Limb

\* C3: whenever calculate_texture_size has returned on a patch list whose
\* accumulated area stays below 2^32, the value it returned is the value of
\* the reference: the first candidate of 32768, 16384, ..., 512 that is not
\* passed on, or 256.
C3_MatchesReference ==
    (cts.pc = "done" /\ RefNoWrap(cts.texture_patches))
        => cts.result = RefSize(cts.texture_patches)

\* C3 witness: the patch of padded width 16383 = 32768/2 - 1 and small area
\* is passed on at 32768 and kept at 16384.
C3_Witness ==
    /\ cts.pc = "done"
    /\ cts.texture_patches = <<SizePatch(16319, 100)>>
    /\ RefNoWrap(cts.texture_patches)
    /\ cts.result = 16384

\* the sizes the heuristic may return
TextureSizes == { 256, 512, 1024, 2048, 4096, 8192, 16384, 32768 }

\* C4: for every patch list, the empty one included, calculate_texture_size
\* terminates, and the value it returns is a power of two from
\* MIN_TEXTURE_SIZE to MAX_TEXTURE_SIZE.
C4_TerminatesInRange ==
    <>[](/\ cts.pc = "done"
         /\ cts.result \in TextureSizes
         /\ MIN_TEXTURE_SIZE <= cts.result
         /\ cts.result <= MAX_TEXTURE_SIZE)

\* C4 witness: the empty list has been sized, to MIN_TEXTURE_SIZE.
C4_Witness ==
    /\ cts.pc = "done"
    /\ cts.texture_patches = <<>>
    /\ cts.result = MIN_TEXTURE_SIZE

(***************************************************************************)
(* Images.  An mve image of width x height samples is kept as the map px   *)
(* of its non-zero pixels (pixel (x, y) has index y * width + x, as in     *)
(* apply_edge_padding); every other pixel holds zero, the value            *)
(* Image::create fills the buffer with.  A colour is an <<r, g, b>>        *)
(* triple of bytes, a validity sample is one byte (0 or 255).  A pointer   *)
(* that has been reset is the record [live |-> FALSE].                     *)
(***************************************************************************)
Black == <<0, 0, 0>>

\* mve::ByteImage::create(width, height, channels)
ImageCreate(width, height, zero) ==
    [live |-> TRUE, width |-> width, height |-> height, zero |-> zero,
     px |-> [p \in {} |-> zero]]

Released == [live |-> FALSE]

\* image->at(x, y)
PixelAt(img, p) == IF p \in DOMAIN img.px THEN img.px[p] ELSE img.zero

\* the image with the pixels of DOMAIN w overwritten by w
Overwrite(img, w) ==
    LET all == w @@ img.px
    IN  [img EXCEPT !.px =
            IF \A q \in DOMAIN w : w[q] # img.zero THEN all
            ELSE [q \in { q \in DOMAIN all : all[q] # img.zero } |-> all[q]]]

\* the pixels of dest that copy_into(src, x, y, dest, border) writes:
\* (x + border + sx, y + border + sy) for every pixel (sx, sy) of src
copy_into_pixels(src, x, y, dest, border) ==
    { (y + border + sy) * dest.width + (x + border + sx) :
        sx \in 0..(src.width - 1), sy \in 0..(src.height - 1) }

\* copy_into<uint8_t>(src, x, y, dest, border)
copy_into(src, x, y, dest, border) ==
    LET from(q) == ((q \div dest.width) - y - border) * src.width
                       + ((q % dest.width) - x - border)
    IN  Overwrite(dest, [q \in copy_into_pixels(src, x, y, dest, border)
                            |-> src.px[from(q)]])

(***************************************************************************)
(* RectangularBin, the packer.  insert either reports no capacity or moves *)
(* the rectangle to a place inside the bin that overlaps no rectangle      *)
(* placed before.  Which place, and whether a rectangle that would still   *)
(* fit is refused, is the packer's choice; the places offered here are the *)
(* corners a packer uses: the origin and the far edges of placed           *)
(* rectangles, on each axis.                                               *)
(***************************************************************************)
Rect(min_x, min_y, max_x, max_y) ==
    [min_x |-> min_x, min_y |-> min_y, max_x |-> max_x, max_y |-> max_y]

RectWidth(r) == r.max_x - r.min_x
RectHeight(r) == r.max_y - r.min_y
RectMove(r, x, y) == Rect(x, y, x + RectWidth(r), y + RectHeight(r))

RectsIntersect(r, s) ==
    /\ r.min_x < s.max_x /\ s.min_x < r.max_x
    /\ r.min_y < s.max_y /\ s.min_y < r.max_y

RectangularBin(width, height) ==
    [live |-> TRUE, width |-> width, height |-> height, rects |-> {}]

BinFits(bin, r) ==
    /\ 0 <= r.min_x /\ r.max_x <= bin.width
    /\ 0 <= r.min_y /\ r.max_y <= bin.height
    /\ \A s \in bin.rects : ~RectsIntersect(r, s)

\* the places bin->insert(&rect) may move rect to
BinPlacements(bin, rect) ==
    LET xs == {0} \cup { s.max_x : s \in bin.rects }
        ys == {0} \cup { s.max_y : s \in bin.rects }
    IN  { r \in { RectMove(rect, x, y) : x \in xs, y \in ys } : BinFits(bin, r) }

\* the bin after bin->insert(&rect) returned true with rect moved to r
BinInsert(bin, r) == [bin EXCEPT !.rects = @ \cup {r}]

(***************************************************************************)
(* TextureAtlas                                                            *)
(***************************************************************************)
\* TextureAtlas::TextureAtlas(size).  pixels says whether this model of the
\* atlas carries the contents of image and validity_mask; placed is the
\* history of the successful insert calls (patch and assigned rectangle).
atlas_padding(size) == size \div 128

TextureAtlas(size, pixels) ==
    [size |-> size, padding |-> atlas_padding(size), finalized |-> FALSE,
     bin |-> RectangularBin(size, size),
     image |-> ImageCreate(size, size, Black),
     validity_mask |-> ImageCreate(size, size, 0),
     faces |-> <<>>, texcoords |-> <<>>, texcoord_ids |-> <<>>,
     state |-> "live", pixels |-> pixels, placed |-> <<>>, edge_padded |-> 0]

\* Rect<int> rect(0, 0, width + 2 * padding, height + 2 * padding);
insert_rect(a, texture_patch) ==
    Rect(0, 0, get_width(texture_patch) + 2 * a.padding,
               get_height(texture_patch) + 2 * a.padding)

\* lines 183-203: the 8 bit patch image after tone mapping and gamma
\* correction.  The floating point operators are not modelled: a patch
\* carries the resulting bytes (ldr), black where its mask is 0.
patch_image(texture_patch) ==
    [width |-> get_width(texture_patch), height |-> get_height(texture_patch),
     px |-> texture_patch.ldr]

get_validity_mask(texture_patch) ==
    [width |-> get_width(texture_patch), height |-> get_height(texture_patch),
     px |-> texture_patch.validity_mask]

\* math::Vec2f offset(rect.min_x + padding, rect.min_y + padding), and
\* texcoord = (rel_texcoord + offset) / size.  A normalized coordinate is
\* kept as its numerator pair, in units of 1 / size: all values are small
\* integers, on which the float sum and quotient are injective.
insert_offset(a, rect) == <<rect.min_x + a.padding, rect.min_y + a.padding>>

insert_texcoords_two_per_face(a, texture_patch, rect) ==
    LET offset == insert_offset(a, rect)
        n == 2 * Len(texture_patch.faces)
    IN  [k \in 1..n |-> <<texture_patch.texcoords[k][1] + offset[1],
                          texture_patch.texcoords[k][2] + offset[2]>>]
insert_texcoords(a, texture_patch, rect) ==
    LET offset == insert_offset(a, rect)
        n == 3 * Len(texture_patch.faces)
    IN  [k \in 1..n |-> <<texture_patch.texcoords[k][1] + offset[1],
                          texture_patch.texcoords[k][2] + offset[2]>>]

\* the atlas after a successful insert that placed the patch at rect
insert_placed_unpadded(a, texture_patch, rect) ==
    [a EXCEPT
        !.bin = BinInsert(@, rect),
        !.image = IF a.pixels
                  THEN copy_into(patch_image(texture_patch),
                                 rect.min_x, rect.min_y, @, 0)
                  ELSE @,
        !.validity_mask = IF a.pixels
                          THEN copy_into(get_validity_mask(texture_patch),
                                         rect.min_x, rect.min_y, @, 0)
                          ELSE @,
        !.faces = @ \o texture_patch.faces,
        !.texcoords = @ \o insert_texcoords(a, texture_patch, rect),
        !.placed = Append(@, [patch |-> texture_patch, rect |-> rect])]
insert_placed(a, texture_patch, rect) ==
    [a EXCEPT
        !.bin = BinInsert(@, rect),
        !.image = IF a.pixels
                  THEN copy_into(patch_image(texture_patch),
                                 rect.min_x, rect.min_y, @, a.padding)
                  ELSE @,
        !.validity_mask = IF a.pixels
                          THEN copy_into(get_validity_mask(texture_patch),
                                         rect.min_x, rect.min_y, @, a.padding)
                          ELSE @,
        !.faces = @ \o texture_patch.faces,
        !.texcoords = @ \o insert_texcoords(a, texture_patch, rect),
        !.placed = Append(@, [patch |-> texture_patch, rect |-> rect])]

(***************************************************************************)
(* apply_edge_padding                                                      *)
(***************************************************************************)
\* has_valid_neighbor(validity_mask, x, y)
has_valid_neighbor(validity_mask, x, y) ==
    \E j \in -1..1, i \in -1..1 :
        LET nx == x + i
            ny == y + j
        IN  /\ ~(nx < 0 \/ validity_mask.width <= nx)
            /\ ~(ny < 0 \/ validity_mask.height <= ny)
            /\ PixelAt(validity_mask, ny * validity_mask.width + nx) = 255

\* the pixels of the image at distance <= 1 of pixel q
around(validity_mask, q) ==
    LET x == q % validity_mask.width
        y == q \div validity_mask.width
    IN  { (y + d[2]) * validity_mask.width + (x + d[1]) :
            d \in { d \in (-1..1) \X (-1..1) :
                      /\ 0 <= x + d[1] /\ x + d[1] < validity_mask.width
                      /\ 0 <= y + d[2] /\ y + d[2] < validity_mask.height } }

\* the pixels of the image with a non-zero sample at distance <= 1
near_nonzero(validity_mask) ==
    UNION { around(validity_mask, q) : q \in DOMAIN validity_mask.px }

\* lines 265-275: the invalid pixels with a valid neighbour.  The two loops
\* visit every pixel of the image; a pixel with no non-zero sample at
\* distance <= 1 fails has_valid_neighbor, so only the others are enumerated.
scan_border_pixels(validity_mask) ==
    { p \in near_nonzero(validity_mask) :
        /\ PixelAt(validity_mask, p) # 255
        /\ has_valid_neighbor(validity_mask, p % validity_mask.width,
                                             p \div validity_mask.width) }

\* gauss, times 16
gauss == <<1, 2, 1, 2, 4, 2, 1, 2, 1>>

\* the (i, j) of the two nested loops, in loop order
Offsets ==
    << <<-1, -1>>, <<0, -1>>, <<1, -1>>,
       <<-1, 0>>, <<0, 0>>, <<1, 0>>,
       <<-1, 1>>, <<0, 1>>, <<1, 1>> >>

RECURSIVE SumTo(_, _)
SumTo(f, n) == IF n = 0 THEN 0 ELSE f[n] + SumTo(f, n - 1)

\* lines 291-298: the weight w (times 16) that the neighbour (x + i, y + j)
\* of pixel (x, y) adds to norm, 0 if one of the continue statements skips it
pixel_weight(image, validity_mask, x, y, i, j) ==
    LET nx == x + i
        ny == y + j
    IN  IF (nx < 0 \/ image.width <= nx) \/ (ny < 0 \/ image.height <= ny)
        THEN 0
        ELSE IF PixelAt(validity_mask, ny * image.width + nx) # 255 THEN 0
        ELSE gauss[(j + 1) * 3 + (i + 1) + 1]

\* the weights of the nine neighbours, in loop order
pixel_weights(image, validity_mask, x, y) ==
    LET w(k) == pixel_weight(image, validity_mask, x, y,
                             Offsets[k][1], Offsets[k][2])
    IN  <<w(1), w(2), w(3), w(4), w(5), w(6), w(7), w(8), w(9)>>

\* norm, times 16
pixel_norm(w) == SumTo(w, 9)

\* value[c] (times 16), the weighted sum of channel c over the neighbours
pixel_sum(image, w, x, y, c) ==
    LET t(k) == IF w[k] = 0 THEN 0
                ELSE PixelAt(image, (y + Offsets[k][2]) * image.width
                                        + (x + Offsets[k][1]))[c] * w[k]
    IN  SumTo(<<t(1), t(2), t(3), t(4), t(5), t(6), t(7), t(8), t(9)>>, 9)

\* value[c] / norm, stored as a byte: value and norm are exact multiples of
\* 1/16 below 2^24, so the float quotient truncates to the integer quotient
pixel_value(image, w, x, y) ==
    << pixel_sum(image, w, x, y, 1) \div pixel_norm(w),
       pixel_sum(image, w, x, y, 2) \div pixel_norm(w),
       pixel_sum(image, w, x, y, 3) \div pixel_norm(w) >>

SetMin(S) == CHOOSE m \in S : \A n \in S : m <= n

\* lines 281-310: the frontier pixels in ascending order (std::set<int>),
\* the image written in place, the mask read but not written
RECURSIVE dilate_loop_eager(_, _, _, _)
dilate_loop_eager(image, validity_mask, todo, new_valid_pixels) ==
    IF todo = {}
    THEN [image |-> image, new_valid_pixels |-> new_valid_pixels]
    ELSE LET it == SetMin(todo)
             x == it % image.width
             y == it \div image.width
             w == pixel_weights(image, validity_mask, x, y)
         IN  IF pixel_norm(w) <= 0
             THEN dilate_loop_eager(image, validity_mask, todo \ {it},
                                    new_valid_pixels)
             ELSE dilate_loop_eager(
                      Overwrite(image, it :> pixel_value(image, w, x, y)),
                      Overwrite(validity_mask, it :> 255), todo \ {it},
                      Append(new_valid_pixels, <<x, y>>))
RECURSIVE dilate_loop(_, _, _, _)
dilate_loop(image, validity_mask, todo, new_valid_pixels) ==
    IF todo = {}
    THEN [image |-> image, new_valid_pixels |-> new_valid_pixels]
    ELSE LET it == SetMin(todo)
             x == it % image.width
             y == it \div image.width
             w == pixel_weights(image, validity_mask, x, y)
         IN  IF pixel_norm(w) <= 0
             THEN dilate_loop(image, validity_mask, todo \ {it}, new_valid_pixels)
             ELSE dilate_loop(
                      Overwrite(image, it :> pixel_value(image, w, x, y)),
                      validity_mask, todo \ {it},
                      Append(new_valid_pixels, <<x, y>>))

\* lines 312-318: validity_mask->at(x, y, 0) = 255 for the new valid pixels
mark_valid(validity_mask, new_valid_pixels) ==
    Overwrite(validity_mask,
        [q \in { new_valid_pixels[k][2] * validity_mask.width
                     + new_valid_pixels[k][1] : k \in 1..Len(new_valid_pixels) }
            |-> 255])

\* lines 328-338: the invalid pixels (x - i, y - j) around (x, y)
border_candidates_cross(validity_mask, x, y) ==
    { n \in { <<x - i, y - j>> : i \in -1..1, j \in -1..1 } :
        /\ n[1] = x \/ n[2] = y
        /\ ~(n[1] < 0 \/ validity_mask.width <= n[1])
        /\ ~(n[2] < 0 \/ validity_mask.height <= n[2])
        /\ PixelAt(validity_mask, n[2] * validity_mask.width + n[1]) # 255 }
border_candidates_unchecked(validity_mask, x, y) ==
    { n \in { <<x - i, y - j>> : i \in -1..1, j \in -1..1 } :
        /\ ~(n[1] < 0 \/ validity_mask.width <= n[1])
        /\ ~(n[2] < 0 \/ validity_mask.height <= n[2]) }
border_candidates(validity_mask, x, y) ==
    { n \in { <<x - i, y - j>> : i \in -1..1, j \in -1..1 } :
        /\ ~(n[1] < 0 \/ validity_mask.width <= n[1])
        /\ ~(n[2] < 0 \/ validity_mask.height <= n[2])
        /\ PixelAt(validity_mask, n[2] * validity_mask.width + n[1]) # 255 }

\* lines 320-340: the invalid neighbours of the new valid pixels
next_border_pixels(validity_mask, new_valid_pixels) ==
    { n[2] * validity_mask.width + n[1] :
        n \in UNION { border_candidates(validity_mask, new_valid_pixels[k][1],
                                        new_valid_pixels[k][2]) :
                        k \in 1..Len(new_valid_pixels) } }

\* the valid pixels of the atlas
ValidPixels(a) ==
    { p \in DOMAIN a.validity_mask.px : a.validity_mask.px[p] = 255 }

\* the frame of apply_edge_padding: where it is, n, invalid_border_pixels;
\* valid_on_entry records the pixels that were valid when the scan ran
PadEnter ==
    [pc |-> "scan", n |-> 0, invalid_border_pixels |-> {}, valid_on_entry |-> {}]

\* for (unsigned int n = 0; n <= padding; ++n)
pad_loop_runs_short(a, f) == f.n < a.padding
pad_loop_runs(a, f) == f.n <= a.padding

\* one step of apply_edge_padding on atlas a with frame f: the scan, one
\* iteration of the dilation loop, or the loop's exit
PadStep(a, f) ==
    IF f.pc = "scan"
    THEN [atlas |-> [a EXCEPT !.edge_padded = @ + 1],
          pad |-> [pc |-> "loop", n |-> 0,
                   invalid_border_pixels |-> scan_border_pixels(a.validity_mask),
                   valid_on_entry |-> ValidPixels(a)]]
    ELSE IF pad_loop_runs(a, f)
    THEN LET d == dilate_loop(a.image, a.validity_mask,
                              f.invalid_border_pixels, <<>>)
             mask == mark_valid(a.validity_mask, d.new_valid_pixels)
         IN  [atlas |-> [a EXCEPT !.image = d.image, !.validity_mask = mask],
              pad |-> [pc |-> "loop", n |-> f.n + 1,
                       invalid_border_pixels |->
                           next_border_pixels(mask, d.new_valid_pixels),
                       valid_on_entry |-> f.valid_on_entry]]
    ELSE [atlas |-> a, pad |-> [f EXCEPT !.pc = "done"]]

RECURSIVE PadRun(_, _)
PadRun(a, f) ==
    IF f.pc = "done" THEN a
    ELSE LET st == PadStep(a, f) IN PadRun(st.atlas, st.pad)

\* this->apply_edge_padding(), as finalize sees it
apply_edge_padding(a) ==
    IF a.pixels THEN PadRun(a, PadEnter) ELSE [a EXCEPT !.edge_padded = @ + 1]

(***************************************************************************)
(* merge_texcoords                                                         *)
(***************************************************************************)
\* VectorCompare::operator()
VectorCompare_first_only(lhs, rhs) == lhs[1] < rhs[1]
VectorCompare(lhs, rhs) ==
    lhs[1] < rhs[1] \/ (lhs[1] = rhs[1] /\ lhs[2] < rhs[2])

\* texcoord_map.find(texcoord): the keys equivalent to texcoord
map_find(texcoord_map, texcoord) ==
    { k \in DOMAIN texcoord_map :
        ~VectorCompare(k, texcoord) /\ ~VectorCompare(texcoord, k) }

\* std::size_t texcoord_id = this->texcoords.size();
merge_new_id_off_by_one(texcoords) == Len(texcoords) + 1
merge_new_id(texcoords) == Len(texcoords)

\* the loop over tmp, from its i-th element on; m is the atlas being merged
RECURSIVE merge_loop(_, _, _, _)
merge_loop(tmp, i, texcoord_map, m) ==
    IF i > Len(tmp) THEN m
    ELSE LET texcoord == tmp[i]
             iter == map_find(texcoord_map, texcoord)
         IN  IF iter = {}
             THEN LET texcoord_id == merge_new_id(m.texcoords)
                  IN  merge_loop(tmp, i + 1,
                          [k \in (DOMAIN texcoord_map) \cup {texcoord} |->
                              IF k = texcoord THEN texcoord_id ELSE texcoord_map[k]],
                          [m EXCEPT !.texcoords = Append(@, texcoord),
                                    !.texcoord_ids = Append(@, texcoord_id)])
             ELSE merge_loop(tmp, i + 1, texcoord_map,
                      [m EXCEPT !.texcoord_ids =
                          Append(@, texcoord_map[CHOOSE k \in iter : TRUE])])

\* TextureAtlas::merge_texcoords: Texcoords tmp; tmp.swap(this->texcoords);
merge_texcoords(a) ==
    merge_loop(a.texcoords, 1, [k \in {} |-> 0], [a EXCEPT !.texcoords = <<>>])

(***************************************************************************)
(* finalize                                                                *)
(***************************************************************************)
\* lines 377-382, on an atlas that is not finalized
\* this->bin.reset();
finalize_begin(a) == [a EXCEPT !.bin = Released]

\* this->validity_mask.reset();
finalize_release_skipped(a) == a
finalize_release(a) == [a EXCEPT !.validity_mask = Released]

\* this->finalized = true;
finalize_mark_skipped(a) == a
finalize_mark(a) == [a EXCEPT !.finalized = TRUE]

finalize(a) ==
    LET unbinned == finalize_begin(a)
        padded == apply_edge_padding(unbinned)
        unmasked == finalize_release(padded)
        merged == merge_texcoords(unmasked)
    IN  finalize_mark(merged)

(***************************************************************************)
(* The calls of a TextureAtlas, with their outcomes.  val is "true" or     *)
(* "false" (insert returned), "ok" (finalize returned), "throw"            *)
(* (util::Exception) or "crash" (a reset pointer was used: the asserts of  *)
(* insert and apply_edge_padding).                                         *)
(***************************************************************************)
Outcome(val, a) == [val |-> val, atlas |-> a]

\* if (finalized) throw ...
insert_rejected(a) == a

\* if (!bin->insert(&rect)) return false;
insert_refused_after_faces(a, texture_patch) ==
    [a EXCEPT !.faces = @ \o texture_patch.faces]
insert_refused(a, texture_patch) == a

\* TextureAtlas::insert(texture_patch, mean, max): every outcome
insert(a, texture_patch) ==
    IF a.finalized THEN { Outcome("throw", insert_rejected(a)) }
    ELSE IF ~a.bin.live \/ ~a.validity_mask.live THEN { Outcome("crash", a) }
    ELSE { Outcome("false", insert_refused(a, texture_patch)) }
         \cup { Outcome("true", insert_placed(a, texture_patch, rect)) :
                  rect \in BinPlacements(a.bin, insert_rect(a, texture_patch)) }

\* how a call of finalize ends: if (finalized) throw ...; the asserts of
\* apply_edge_padding
finalize_val(a) ==
    IF a.finalized THEN "throw"
    ELSE IF ~a.image.live \/ ~a.validity_mask.live THEN "crash"
    ELSE "ok"

\* TextureAtlas::finalize(), as its caller sees it
finalize_call(a) ==
    IF finalize_val(a) = "throw" THEN Outcome("throw", a)
    ELSE IF finalize_val(a) = "crash"
    THEN Outcome("crash", [a EXCEPT !.bin = Released])
    ELSE Outcome("ok", finalize(a))

(***************************************************************************)
(* One atlas and its caller: an atlas of a small size is created, patches  *)
(* are inserted, and finalize runs step by step; insert and finalize may   *)
(* be called again afterwards.                                             *)
(***************************************************************************)
\* most successful insert calls on one atlas
MaxInserts == 2

AtlasSizes == { 64, 128, 256 }

Orange == <<200, 100, 50>>
Teal == <<40, 80, 120>>
Crimson == <<255, 0, 16>>

Patch(w, h, ldr, mask, faces, texcoords) ==
    [width |-> w, height |-> h,
     ldr |-> [k \in 0..(w * h - 1) |-> ldr[k + 1]],
     validity_mask |-> [k \in 0..(w * h - 1) |-> mask[k + 1]],
     faces |-> faces, texcoords |-> texcoords]

AtlasPatches ==
    { Patch(1, 1, <<Orange>>, <<255>>, <<7>>, << <<0, 0>>, <<1, 0>>, <<0, 1>> >>),
      Patch(2, 1, <<Teal, Black>>, <<255, 0>>, <<8>>,
            << <<0, 0>>, <<2, 0>>, <<0, 1>> >>),
      Patch(2, 2, <<Orange, Teal, Crimson, Teal>>, <<255, 255, 255, 255>>, <<3, 4>>,
            << <<0, 0>>, <<2, 0>>, <<0, 2>>, <<2, 0>>, <<0, 2>>, <<2, 2>> >>) }

InitAtlas ==
    /\ atlas \in { TextureAtlas(size, TRUE) : size \in AtlasSizes }
    /\ pad = IdlePad
    /\ ret = NoCall
    /\ cts = IdleCts
    /\ gen = IdleGen
    /\ texture_atlases = <<>>

\* insert returns true
InsertPlaced ==
    /\ pad.pc = "idle"
    /\ Len(atlas.placed) < MaxInserts
    /\ \E texture_patch \in AtlasPatches :
         \E o \in insert(atlas, texture_patch) :
            /\ o.val = "true"
            /\ atlas' = o.atlas
            /\ ret' = [op |-> "insert", val |-> o.val]
    /\ UNCHANGED <<cts, gen, pad, texture_atlases>>

\* insert returns false
InsertRefused ==
    /\ pad.pc = "idle"
    /\ \E texture_patch \in AtlasPatches :
         \E o \in insert(atlas, texture_patch) :
            /\ o.val = "false"
            /\ atlas' = o.atlas
            /\ ret' = [op |-> "insert", val |-> o.val]
    /\ UNCHANGED <<cts, gen, pad, texture_atlases>>

\* insert throws or crashes
InsertFails ==
    /\ pad.pc = "idle"
    /\ \E texture_patch \in AtlasPatches :
         \E o \in insert(atlas, texture_patch) :
            /\ o.val \in {"throw", "crash"}
            /\ atlas' = o.atlas
            /\ ret' = [op |-> "insert", val |-> o.val]
    /\ UNCHANGED <<cts, gen, pad, texture_atlases>>

\* finalize throws or crashes
FinalizeFails ==
    /\ pad.pc = "idle"
    /\ finalize_val(atlas) \in {"throw", "crash"}
    /\ atlas' = finalize_call(atlas).atlas
    /\ ret' = [op |-> "finalize", val |-> finalize_val(atlas)]
    /\ UNCHANGED <<cts, gen, pad, texture_atlases>>

\* finalize is entered: this->bin.reset(); apply_edge_padding is entered
FinalizeBegin ==
    /\ pad.pc = "idle"
    /\ finalize_val(atlas) = "ok"
    /\ atlas' = finalize_begin(atlas)
    /\ pad' = PadEnter
    /\ ret' = [op |-> "finalize", val |-> "running"]
    /\ UNCHANGED <<cts, gen, texture_atlases>>

\* apply_edge_padding: the scan for the border pixels
PadScan ==
    /\ pad.pc = "scan"
    /\ LET st == PadStep(atlas, pad)
       IN  atlas' = st.atlas /\ pad' = st.pad
    /\ UNCHANGED <<cts, gen, texture_atlases, ret>>

\* apply_edge_padding: one iteration of the dilation loop
PadIterate ==
    /\ pad.pc = "loop"
    /\ pad_loop_runs(atlas, pad)
    /\ LET st == PadStep(atlas, pad)
       IN  atlas' = st.atlas /\ pad' = st.pad
    /\ UNCHANGED <<cts, gen, texture_atlases, ret>>

\* apply_edge_padding: the loop ends and the function returns
PadExit ==
    /\ pad.pc = "loop"
    /\ ~pad_loop_runs(atlas, pad)
    /\ LET st == PadStep(atlas, pad)
       IN  atlas' = st.atlas /\ pad' = st.pad
    /\ UNCHANGED <<cts, gen, texture_atlases, ret>>

\* finalize after apply_edge_padding has returned: this->validity_mask.reset()
FinalizeRelease ==
    /\ pad.pc = "done"
    /\ atlas' = finalize_release(atlas)
    /\ pad' = [pad EXCEPT !.pc = "merge"]
    /\ UNCHANGED <<cts, gen, texture_atlases, ret>>

\* this->merge_texcoords()
FinalizeMerge ==
    /\ pad.pc = "merge"
    /\ atlas' = merge_texcoords(atlas)
    /\ pad' = [pad EXCEPT !.pc = "mark"]
    /\ UNCHANGED <<cts, gen, texture_atlases, ret>>

\* this->finalized = true; finalize returns
FinalizeMark ==
    /\ pad.pc = "mark"
    /\ atlas' = finalize_mark(atlas)
    /\ pad' = [pad EXCEPT !.pc = "idle"]
    /\ ret' = [op |-> "finalize", val |-> "ok"]
    /\ UNCHANGED <<cts, gen, texture_atlases>>

NextAtlas ==
    \/ InsertPlaced \/ InsertRefused \/ InsertFails
    \/ FinalizeBegin \/ PadScan \/ PadIterate \/ PadExit
    \/ FinalizeRelease \/ FinalizeMerge \/ FinalizeMark
    \/ FinalizeFails

SpecAtlas == InitAtlas /\ [][NextAtlas]_vars

(***************************************************************************)
(* Claims about one atlas.                                                 *)
(***************************************************************************)
\* the step in which finalize runs merge_texcoords
MergeStep == pad.pc = "merge" /\ pad'.pc = "mark"

NoTwoEqual(seq) ==
    \A i \in 1..Len(seq) : \A j \in 1..Len(seq) : seq[i] = seq[j] => i = j

\* C5: merge_texcoords on a raw UV list R leaves an index list as long as R,
\* every index i of which resolves to R[i] in the table, and a table in which
\* no coordinate occurs twice.
C5_MergeRoundTrip ==
    [][MergeStep =>
          LET R == atlas.texcoords
              ids == atlas'.texcoord_ids
              table == atlas'.texcoords
          IN  /\ Len(ids) = Len(R)
              /\ \A i \in 1..Len(R) :
                    /\ ids[i] + 1 \in 1..Len(table)
                    /\ table[ids[i] + 1] = R[i]
              /\ NoTwoEqual(table)]_vars

\* C5 witness: an atlas has been merged whose raw list held a coordinate
\* more than once (the table is shorter than the index list).
C5_Witness ==
    /\ atlas.finalized
    /\ Len(atlas.texcoords) > 0
    /\ Len(atlas.texcoord_ids) > Len(atlas.texcoords)

\* C9: merge_texcoords on a UV list that holds no coordinate twice leaves the
\* list as it is and makes the index list the identity 0, 1, ..., n - 1.
C9_MergeOfDeduplicated ==
    [][(MergeStep /\ NoTwoEqual(atlas.texcoords)) =>
          /\ atlas'.texcoords = atlas.texcoords
          /\ atlas'.texcoord_ids = [i \in 1..Len(atlas.texcoords) |-> i - 1]]_vars

\* C9 witness: an atlas with six coordinates, all different, has been merged.
C9_Witness ==
    /\ atlas.finalized
    /\ Len(atlas.texcoords) = 6
    /\ Len(atlas.texcoord_ids) = 6

\* finalize has run to its end on the atlas, and no call is in progress
FinalizeCompleted ==
    /\ atlas.state # "none"
    /\ ~atlas.validity_mask.live
    /\ pad.pc = "idle"

\* C6: once finalize has completed, every call of insert and of finalize
\* throws and leaves image, faces, texcoords and texcoord_ids as they were.
C6_UseAfterFinalize ==
    [][FinalizeCompleted =>
          /\ ret'.val = "throw"
          /\ atlas'.image = atlas.image
          /\ atlas'.faces = atlas.faces
          /\ atlas'.texcoords = atlas.texcoords
          /\ atlas'.texcoord_ids = atlas.texcoord_ids]_vars

\* C6 witness: finalize was called on a finalized atlas that holds faces,
\* and threw.
C6_Witness ==
    /\ atlas.finalized
    /\ atlas.faces # <<>>
    /\ ret = [op |-> "finalize", val |-> "throw"]

\* C7: a call of insert that returns false (the packer reported no capacity)
\* leaves image, validity_mask, faces and texcoords as they were.
C7_RefusedInsertChangesNothing ==
    [][(ret'.op = "insert" /\ ret'.val = "false") =>
          /\ atlas'.image = atlas.image
          /\ atlas'.validity_mask = atlas.validity_mask
          /\ atlas'.faces = atlas.faces
          /\ atlas'.texcoords = atlas.texcoords]_vars

\* C7 witness: insert returned false on an atlas that holds two patches.
C7_Witness ==
    /\ ret = [op |-> "insert", val |-> "false"]
    /\ ~atlas.finalized
    /\ Len(atlas.placed) = 2

\* C8: apply_edge_padding leaves its loop after exactly padding + 1
\* iterations, and no step of it makes a valid pixel invalid.
C8_PaddingIterations ==
    [][/\ (pad.pc = "loop" /\ pad'.pc = "done") => pad'.n = atlas.padding + 1
       /\ (pad.pc \in {"scan", "loop"}) =>
              ValidPixels(atlas) \subseteq ValidPixels(atlas')]_vars

\* C8 witness: the loop has ended after 3 iterations on an atlas of padding 2
\* that holds valid pixels, more of them than its patches brought.
C8_Witness ==
    /\ pad.pc = "done"
    /\ atlas.padding = 2
    /\ pad.n = 3
    /\ Cardinality(ValidPixels(atlas)) > 8

\* the pixels (x, y) the claim assigns to the k-th inserted patch
Region(a, k) ==
    LET r == a.placed[k].rect
        q == a.placed[k].patch
    IN  { <<x, y>> \in
            ((r.min_x + a.padding)..(r.min_x + a.padding + q.width - 1))
                \X ((r.min_y + a.padding)..(r.min_y + a.padding + q.height - 1)) :
            TRUE }

\* the k-th inserted patch is in the atlas as it was given
ContentIntact(a, k) ==
    LET r == a.placed[k].rect
        q == a.placed[k].patch
    IN  \A sx \in 0..(q.width - 1), sy \in 0..(q.height - 1) :
            LET at == (r.min_y + a.padding + sy) * a.size
                          + (r.min_x + a.padding + sx)
            IN  /\ PixelAt(a.image, at) = q.ldr[sy * q.width + sx]
                /\ PixelAt(a.validity_mask, at) = q.validity_mask[sy * q.width + sx]

\* C10: the rectangles the packer assigned are the padding-expanded ones and
\* do not intersect; the regions insert wrote (rectangle origin + padding,
\* patch width x height) are pairwise disjoint and inside the atlas; and until
\* finalize every patch's content is in its region and nothing is written
\* outside the regions.
C10_RegionsDisjoint ==
    (atlas.state # "none") =>
        /\ \A k \in 1..Len(atlas.placed) :
              /\ RectWidth(atlas.placed[k].rect)
                     = atlas.placed[k].patch.width + 2 * atlas.padding
              /\ RectHeight(atlas.placed[k].rect)
                     = atlas.placed[k].patch.height + 2 * atlas.padding
              /\ \A n \in Region(atlas, k) :
                    n[1] \in 0..(atlas.size - 1) /\ n[2] \in 0..(atlas.size - 1)
              /\ \A l \in 1..Len(atlas.placed) :
                    k # l =>
                        /\ ~RectsIntersect(atlas.placed[k].rect, atlas.placed[l].rect)
                        /\ Region(atlas, k) \cap Region(atlas, l) = {}
        /\ atlas.bin.live =>
              /\ \A k \in 1..Len(atlas.placed) : ContentIntact(atlas, k)
              /\ \A p \in (DOMAIN atlas.image.px) \cup (DOMAIN atlas.validity_mask.px) :
                    \E k \in 1..Len(atlas.placed) :
                        <<p % atlas.size, p \div atlas.size>> \in Region(atlas, k)

\* C10 witness: two patches lie in an atlas of padding 2, their rectangles
\* side by side with a common edge.
C10_Witness ==
    /\ atlas.state # "none"
    /\ atlas.bin.live
    /\ atlas.padding = 2
    /\ Len(atlas.placed) = 2
    /\ atlas.placed[2].rect.min_x = atlas.placed[1].rect.max_x
    /\ atlas.placed[2].rect.min_y = atlas.placed[1].rect.min_y

(***************************************************************************)
(* generate_texture_atlases                                                *)
(***************************************************************************)
\* bool comp(first, second)
comp_ascending(first, second) == get_size(first) < get_size(second)
comp(first, second) == get_size(first) > get_size(second)

\* lines 86-91: the list built from the back of orig_texture_patches
drain(orig_texture_patches) ==
    [k \in 1..Len(orig_texture_patches) |->
        orig_texture_patches[Len(orig_texture_patches) + 1 - k]]

\* the sorted list l with e put behind the last element that e does not
\* precede (std::list::sort is a stable merge sort)
RECURSIVE sorted_insert(_, _)
sorted_insert(l, e) ==
    IF l = <<>> THEN <<e>>
    ELSE IF comp(e, Head(l)) THEN <<e>> \o l
    ELSE <<Head(l)>> \o sorted_insert(Tail(l), e)

\* texture_patches.sort(comp)
RECURSIVE list_sort(_)
list_sort(l) ==
    IF l = <<>> THEN <<>>
    ELSE sorted_insert(list_sort(SubSeq(l, 1, Len(l) - 1)), l[Len(l)])

\* TextureAtlas::create(texture_size); the atlases of the packing loop are
\* modelled without the contents of their pixel buffers, which the loop
\* never reads
create(texture_size) == TextureAtlas(texture_size, FALSE)

\* the frame on entry; input and emitted_before record the arguments as they
\* were when the function was called, sweeps counts the sweeps started
GenEnter(orig_texture_patches, atlases) ==
    [pc |-> "start", orig_texture_patches |-> orig_texture_patches,
     texture_patches |-> <<>>, total_num_patches |-> 0,
     remaining_patches |-> 0, it |-> 1, texture_size |-> 0,
     input |-> orig_texture_patches, emitted_before |-> Len(atlases),
     sweeps |-> 0]

\* lines 86-104
gen_prepare(g) ==
    LET texture_patches == list_sort(drain(g.orig_texture_patches))
    IN  [g EXCEPT !.pc = "while",
                  !.orig_texture_patches = <<>>,
                  !.texture_patches = texture_patches,
                  !.total_num_patches = Len(texture_patches),
                  !.remaining_patches = Len(texture_patches),
                  !.texture_size = calculate_texture_size(texture_patches)]

\* texture_size *= 2
double_size_stuck(texture_size) == texture_size
double_size(texture_size) == texture_size * 2

\* if (texture_size > MAX_TEXTURE_SIZE)
exceeds_maximum_or_equals(texture_size) == texture_size >= MAX_TEXTURE_SIZE
exceeds_maximum(texture_size) == texture_size > MAX_TEXTURE_SIZE

\* lines 127-130: the sweep starts again
gen_restart_keeps_count(g) == [g EXCEPT !.pc = "while", !.it = 1]
gen_restart(g) ==
    [g EXCEPT !.pc = "while",
              !.remaining_patches = Len(g.texture_patches),
              !.it = 1]

GenPrepare ==
    /\ gen.pc = "start"
    /\ gen' = gen_prepare(gen)
    /\ atlas' = create(gen'.texture_size)
    /\ UNCHANGED <<cts, pad, texture_atlases, ret>>

\* while (remaining_patches > 0): a sweep starts
GenSweep ==
    /\ gen.pc = "while"
    /\ gen.remaining_patches > 0
    /\ gen' = [gen EXCEPT !.pc = "for", !.it = 1, !.sweeps = @ + 1]
    /\ UNCHANGED <<cts, atlas, pad, texture_atlases, ret>>

\* texture_atlas->insert(*it) returns true
GenInserted ==
    /\ gen.pc = "for"
    /\ gen.it <= Len(gen.texture_patches)
    /\ \E o \in insert(atlas, gen.texture_patches[gen.it]) :
          /\ o.val = "true"
          /\ atlas' = o.atlas
          /\ ret' = [op |-> "insert", val |-> o.val]
    /\ gen' = [gen EXCEPT !.it = @ + 1, !.remaining_patches = @ - 1]
    /\ UNCHANGED <<cts, pad, texture_atlases>>

\* texture_atlas->insert(*it) returns false and the size can be doubled
GenRetry ==
    /\ gen.pc = "for"
    /\ gen.it <= Len(gen.texture_patches)
    /\ \E o \in insert(atlas, gen.texture_patches[gen.it]) :
          /\ o.val = "false"
          /\ ret' = [op |-> "insert", val |-> o.val]
    /\ ~exceeds_maximum(double_size(gen.texture_size))
    /\ gen' = [gen_restart(gen) EXCEPT !.texture_size = double_size(@)]
    /\ atlas' = create(gen'.texture_size)
    /\ UNCHANGED <<cts, pad, texture_atlases>>

\* texture_atlas->insert(*it) returns false and the doubled size exceeds
\* MAX_TEXTURE_SIZE: std::exit(EXIT_FAILURE)
GenFatal ==
    /\ gen.pc = "for"
    /\ gen.it <= Len(gen.texture_patches)
    /\ \E o \in insert(atlas, gen.texture_patches[gen.it]) :
          /\ o.val = "false"
          /\ atlas' = o.atlas
          /\ ret' = [op |-> "insert", val |-> o.val]
    /\ exceeds_maximum(double_size(gen.texture_size))
    /\ gen' = [gen EXCEPT !.pc = "fatal", !.texture_size = double_size(@)]
    /\ UNCHANGED <<cts, pad, texture_atlases>>

\* it == texture_patches.end(): the for loop ends
GenSweepEnd ==
    /\ gen.pc = "for"
    /\ gen.it > Len(gen.texture_patches)
    /\ gen' = [gen EXCEPT !.pc = "while"]
    /\ UNCHANGED <<cts, atlas, pad, texture_atlases, ret>>

\* lines 134-135: the while loop ends; push_back and finalize
GenEmit ==
    /\ gen.pc = "while"
    /\ ~(gen.remaining_patches > 0)
    /\ atlas' = finalize_call(atlas).atlas
    /\ ret' = [op |-> "finalize", val |-> finalize_call(atlas).val]
    /\ texture_atlases' = Append(texture_atlases, atlas')
    /\ gen' = [gen EXCEPT !.pc = "returned"]
    /\ UNCHANGED <<cts, pad>>

(***************************************************************************)
(* Inputs of generate_texture_atlases: up to MaxGenPatches patches, in any *)
(* order; the i-th patch of the vector holds faces 10 i + 1, 10 i + 2, ... *)
(* and three coordinates per face.  The output vector is empty or holds an *)
(* atlas of an earlier run.                                                *)
(***************************************************************************)
MaxGenPatches == 3

GenKinds ==
    { [width |-> 130, height |-> 130, nfaces |-> 1],
      [width |-> 10, height |-> 10, nfaces |-> 2],
      [width |-> 20000, height |-> 20000, nfaces |-> 1] }

GenPatch(kind, i) ==
    [width |-> kind.width, height |-> kind.height,
     faces |-> [f \in 1..kind.nfaces |-> 10 * i + f],
     texcoords |-> [k \in 1..(3 * kind.nfaces) |->
                       << <<0, 0>>, <<kind.width, 0>>, <<0, kind.height>> >>
                           [((k - 1) % 3) + 1]]]

GenInputs ==
    { [i \in 1..Len(kinds) |-> GenPatch(kinds[i], i)] :
        kinds \in SeqsUpTo(GenKinds, MaxGenPatches) }

EarlierAtlases == { <<>>, <<finalize(create(MIN_TEXTURE_SIZE))>> }

InitGen ==
    /\ texture_atlases \in EarlierAtlases
    /\ gen \in { GenEnter(orig, texture_atlases) : orig \in GenInputs }
    /\ atlas = IdleAtlas
    /\ cts = IdleCts
    /\ pad = IdlePad
    /\ ret = NoCall

NextGen ==
    \/ GenPrepare \/ GenSweep \/ GenInserted \/ GenRetry \/ GenFatal
    \/ GenSweepEnd \/ GenEmit

SpecGen == InitGen /\ [][NextGen]_vars

\* The function runs until it returns or exits: whichever statement is next
\* is eventually executed.  For the statements of the loop this is weak
\* fairness of their actions.  GenPrepare and GenEmit have no guard but
\* their place in the code, and they change gen.pc, so a step of theirs is
\* possible exactly in the states named here; their weak fairness is
\* written out with these states in place of ENABLED.
GenPrepareEnabled == gen.pc = "start"
GenEmitEnabled == gen.pc = "while" /\ ~(gen.remaining_patches > 0)
FairSpecGen ==
    /\ SpecGen
    /\ WF_vars(GenSweep)
    /\ WF_vars(GenInserted \/ GenRetry \/ GenFatal)
    /\ WF_vars(GenSweepEnd)
    /\ ([]<>(~GenPrepareEnabled) \/ []<><<GenPrepare>>_vars)
    /\ ([]<>(~GenEmitEnabled) \/ []<><<GenEmit>>_vars)

(***************************************************************************)
(* Claims about generate_texture_atlases.                                  *)
(***************************************************************************)
Occurrences(e, seq) == Cardinality({ k \in 1..Len(seq) : seq[k] = e })

\* C1: when generate_texture_atlases has returned, the output vector holds
\* exactly one atlas more than before, after the ones it held; that atlas is
\* finalized and holds every input patch exactly once, so that every face of
\* every input patch occurs exactly once in its face list, and no other face.
C1_OneCompleteAtlas ==
    gen.pc = "returned" =>
        LET out == texture_atlases[Len(texture_atlases)]
            patches == [k \in 1..Len(out.placed) |-> out.placed[k].patch]
        IN  /\ Len(texture_atlases) = gen.emitted_before + 1
            /\ SubSeq(texture_atlases, 1, gen.emitted_before) \in EarlierAtlases
            /\ out.finalized
            /\ Len(patches) = Len(gen.input)
            /\ \A i \in 1..Len(gen.input) :
                  /\ Occurrences(gen.input[i], patches) = 1
                  /\ \A f \in 1..Len(gen.input[i].faces) :
                        Occurrences(gen.input[i].faces[f], out.faces) = 1
            /\ \A k \in 1..Len(out.faces) :
                  \E i \in 1..Len(gen.input) :
                      Occurrences(out.faces[k], gen.input[i].faces) = 1

\* C1 witness: the function has returned an atlas of three patches that is
\* four times as large as the heuristic's size, i.e. after two restarts.
C1_Witness ==
    /\ gen.pc = "returned"
    /\ Len(gen.input) = 3
    /\ atlas.size = 4 * calculate_texture_size(gen.texture_patches)
    /\ Len(texture_atlases[Len(texture_atlases)].faces) >= 4

\* an insert call is made in this step
InsertAttempt == gen.pc = "for" /\ gen.it <= Len(gen.texture_patches)

\* C2: an insertion that fails on an atlas of size MAX_TEXTURE_SIZE ends the
\* run in the fatal state; the fatal state is entered in no other way; and in
\* it the output vector is as it was on entry and no atlas of the run has
\* been finalized.
C2_FatalOnlyAtMaximum ==
    [][/\ (InsertAttempt /\ ret'.val = "false"
               /\ atlas.size = MAX_TEXTURE_SIZE) => gen'.pc = "fatal"
       /\ (gen'.pc = "fatal") =>
              /\ \/ gen.pc = "fatal"
                 \/ InsertAttempt /\ ret'.val = "false"
                        /\ atlas.size = MAX_TEXTURE_SIZE
              /\ texture_atlases' \in EarlierAtlases
              /\ Len(texture_atlases') = gen'.emitted_before
              /\ ~atlas'.finalized]_vars

\* C2 witness: the run has ended in the fatal state on an atlas of size
\* MAX_TEXTURE_SIZE that already held a patch.
C2_Witness ==
    /\ gen.pc = "fatal"
    /\ atlas.size = MAX_TEXTURE_SIZE
    /\ Len(atlas.placed) = 1
    /\ Len(gen.input) = 2

(***************************************************************************)
(* Claims about the rings of apply_edge_padding.                           *)
(***************************************************************************)
\* the in-bounds pixels at Chebyshev distance <= 1 of a pixel of S
Grow(img, S) == UNION { around(img, q) : q \in S }

\* the in-bounds pixels at Chebyshev distance <= k of a pixel of S
RECURSIVE WithinDistance(_, _, _)
WithinDistance(img, S, k) ==
    IF k = 0 THEN S ELSE Grow(img, WithinDistance(img, S, k - 1))

\* the pixels where the two images differ
Differing(imgA, imgB) ==
    { p \in DOMAIN imgA.px \cup DOMAIN imgB.px : PixelAt(imgA, p) # PixelAt(imgB, p) }

\* the step is one iteration of the dilation loop
DilationStep == pad.pc = "loop" /\ pad'.pc = "loop"

\* C11: with mask values 0 and 255 only, after n iterations of the dilation
\* loop the valid pixels are exactly the in-bounds pixels at Chebyshev
\* distance <= n of a pixel valid on entry, and the frontier is exactly the
\* pixels at distance n + 1; an iteration makes every frontier pixel valid
\* (each has a valid 8-neighbour, so none is skipped) and writes no other
\* pixel; on exit, after padding + 1 iterations, a pixel is valid iff its
\* distance to a pixel valid on entry is at most padding + 1.
C11_RingsOfDilation ==
    [][/\ pad'.pc \in {"loop", "done"} =>
              LET mask == atlas'.validity_mask
                  reached == WithinDistance(mask, pad'.valid_on_entry, pad'.n)
              IN  /\ ValidPixels(atlas') = reached
                  /\ pad'.invalid_border_pixels = Grow(mask, reached) \ reached
                  /\ pad'.pc = "done" => pad'.n = atlas'.padding + 1
       /\ DilationStep =>
              /\ \A p \in pad.invalid_border_pixels :
                    has_valid_neighbor(atlas.validity_mask,
                                       p % atlas.size, p \div atlas.size)
              /\ ValidPixels(atlas') \ ValidPixels(atlas) = pad.invalid_border_pixels
              /\ Differing(atlas.validity_mask, atlas'.validity_mask)
                     = pad.invalid_border_pixels
              /\ Differing(atlas.image, atlas'.image)
                     \subseteq pad.invalid_border_pixels]_vars

\* C11 witness: apply_edge_padding has ended on an atlas of padding 2 with
\* two patches, one of them with an invalid pixel, and more pixels are valid
\* than on entry.
C11_Witness ==
    /\ pad.pc = "done"
    /\ atlas.padding = 2
    /\ Len(atlas.placed) = 2
    /\ \E k \in 1..2 : \E q \in DOMAIN atlas.placed[k].patch.validity_mask :
          atlas.placed[k].patch.validity_mask[q] = 0
    /\ Cardinality(ValidPixels(atlas)) > Cardinality(pad.valid_on_entry) + 24

(***************************************************************************)
(* Claims about the packing loop.                                          *)
(***************************************************************************)
InPackingLoop(g) == g.pc \in {"while", "for"}

\* the patches of the atlas, in the order of their insertion
InsertedPatches(a) == [k \in 1..Len(a.placed) |-> a.placed[k].patch]

\* the list is in descending order of get_size
Descending(l) ==
    \A i \in 1..Len(l), j \in 1..Len(l) :
        i < j => get_size(l[i]) >= get_size(l[j])

\* the list l holds the elements of m, each as often as m does
Permutation(l, m) ==
    /\ Len(l) = Len(m)
    /\ \A i \in 1..Len(m) : Occurrences(m[i], l) = Occurrences(m[i], m)

PackingInvariant(g, a) ==
    /\ g.total_num_patches = Len(g.texture_patches)
    /\ Permutation(g.texture_patches, g.input)
    /\ Descending(g.texture_patches)
    /\ g.remaining_patches = g.total_num_patches - Len(a.placed)
    /\ InsertedPatches(a)
           = SubSeq(g.texture_patches, 1, g.total_num_patches - g.remaining_patches)
    /\ g.pc = "for" => g.it = Len(a.placed) + 1

\* C12: at every point of the packing loop, remaining_patches is the total
\* less the number of patches in the current atlas, and the patches in the
\* current atlas are the first (total - remaining_patches) patches of the
\* list sorted by descending area, in that order; the list does not change
\* during the loop; after a failed insertion that does not end the run, the
\* current atlas is a fresh empty one of twice the size, remaining_patches
\* is the total and the next insertion is of the first patch.
C12_PackingLoopInvariant ==
    [][/\ InPackingLoop(gen') => PackingInvariant(gen', atlas')
       /\ (InPackingLoop(gen) /\ InPackingLoop(gen')) =>
              /\ gen'.texture_patches = gen.texture_patches
              /\ gen'.total_num_patches = gen.total_num_patches
       /\ (InsertAttempt /\ ret'.val = "false" /\ InPackingLoop(gen')) =>
              /\ atlas' = create(2 * atlas.size)
              /\ atlas'.placed = <<>> /\ atlas'.faces = <<>>
              /\ atlas'.texcoords = <<>>
              /\ gen'.remaining_patches = gen'.total_num_patches
              /\ gen'.it = 1]_vars

\* C12 witness: in the second or a later sweep over a list that had to be
\* reordered, two patches are in the atlas and a third is to be inserted.
C12_Witness ==
    /\ gen.pc = "for"
    /\ Len(gen.texture_patches) = 3
    /\ gen.texture_patches # drain(gen.input)
    /\ atlas.size > calculate_texture_size(gen.texture_patches)
    /\ Len(atlas.placed) = 2
    /\ gen.it = 3

\* C13: generate_texture_atlases terminates: it ends up having returned or
\* in the fatal exit.  Every atlas it creates has a power of two from
\* MIN_TEXTURE_SIZE to MAX_TEXTURE_SIZE as its size, every refused insertion
\* that does not end the run replaces the atlas by one of exactly twice the
\* size, and at most 8 sweeps are started.
C13_Terminates ==
    /\ <>[](gen.pc \in {"returned", "fatal"})
    /\ [](atlas # IdleAtlas =>
              /\ atlas.size \in TextureSizes
              /\ MIN_TEXTURE_SIZE <= atlas.size
              /\ atlas.size <= MAX_TEXTURE_SIZE
              /\ gen.sweeps <= 8)
    /\ [][(InsertAttempt /\ ret'.val = "false" /\ gen'.pc # "fatal") =>
              /\ atlas'.size = 2 * atlas.size
              /\ gen'.texture_size = atlas'.size]_vars

\* C13 witness: the function has returned after 8 sweeps, from an atlas of
\* MIN_TEXTURE_SIZE to one of MAX_TEXTURE_SIZE.
C13_Witness ==
    /\ gen.pc = "returned"
    /\ gen.sweeps = 8
    /\ calculate_texture_size(gen.texture_patches) = MIN_TEXTURE_SIZE
    /\ atlas.size = MAX_TEXTURE_SIZE
    /\ Len(atlas.placed) = 3

(***************************************************************************)
(* Claims about one iteration of the dilation loop.                        *)
(***************************************************************************)
\* the colour the loop body computes for pixel p from the given image and
\* mask
AverageAt(image, validity_mask, p) ==
    LET x == p % image.width
        y == p \div image.width
    IN  pixel_value(image, pixel_weights(image, validity_mask, x, y), x, y)

\* the neighbours of p that the loop body reads the colour of
ReadAt(image, validity_mask, p) ==
    { q \in around(image, p) : PixelAt(validity_mask, q) = 255 }

SetMax(S) == CHOOSE m \in S : \A n \in S : n <= m

\* the loop body applied to the frontier pixels in descending order
RECURSIVE DilateDescending(_, _, _)
DilateDescending(image, validity_mask, todo) ==
    IF todo = {} THEN image
    ELSE LET it == SetMax(todo)
             next == IF ReadAt(image, validity_mask, it) = {} THEN image
                     ELSE Overwrite(image,
                                    it :> AverageAt(image, validity_mask, it))
         IN  IF next.live
             THEN DilateDescending(next, validity_mask, todo \ {it})
             ELSE next

\* C14: in one iteration of the dilation loop, the colour written to a
\* frontier pixel is the weighted average over the pixels that were valid
\* at the start of the iteration, with the colours they had then: no pixel
\* that is read is written in the same iteration, so the image and the mask
\* after the iteration do not depend on the order in which the frontier is
\* processed (the descending order gives the same image as the ascending
\* order of the code).
C14_IterationReadsOnlyOldPixels ==
    [][DilationStep =>
          LET frontier == pad.invalid_border_pixels
          IN  /\ \A p \in frontier :
                    /\ ReadAt(atlas.image, atlas.validity_mask, p)
                           \cap frontier = {}
                    /\ ReadAt(atlas.image, atlas.validity_mask, p) # {} =>
                           PixelAt(atlas'.image, p)
                               = AverageAt(atlas.image, atlas.validity_mask, p)
              /\ \A q \in (DOMAIN atlas.image.px \cup DOMAIN atlas'.image.px)
                              \ frontier :
                    PixelAt(atlas'.image, q) = PixelAt(atlas.image, q)
              /\ atlas'.image
                     = DilateDescending(atlas.image, atlas.validity_mask, frontier)
              /\ atlas'.validity_mask
                     = Overwrite(atlas.validity_mask,
                                 [p \in { p \in frontier :
                                            ReadAt(atlas.image,
                                                   atlas.validity_mask, p) # {} }
                                     |-> 255])]_vars

\* C14 witness: the second iteration has run on an atlas that holds a patch
\* of two colours: its frontier pixels neighbour one another and pixels
\* filled by the first iteration.
C14_Witness ==
    /\ pad.pc = "loop"
    /\ pad.n = 2
    /\ \E k \in 1..Len(atlas.placed) : atlas.placed[k].patch.width = 2
    /\ Cardinality(ValidPixels(atlas)) >= 30

\* a step of apply_edge_padding
PaddingStep == pad.pc \in {"scan", "loop"}

\* the pixels of the atlas that its patches brought as valid pixels, with
\* the colours they brought
PatchPixelsKept(a) ==
    \A k \in 1..Len(a.placed) :
        LET r == a.placed[k].rect
            q == a.placed[k].patch
        IN  \A sx \in 0..(q.width - 1), sy \in 0..(q.height - 1) :
                q.validity_mask[sy * q.width + sx] = 255 =>
                    PixelAt(a.image, (r.min_y + a.padding + sy) * a.size
                                         + (r.min_x + a.padding + sx))
                        = q.ldr[sy * q.width + sx]

\* C15: apply_edge_padding writes the colour of no valid pixel: in each of
\* its steps every valid pixel keeps its colour and stays valid, and the
\* frontier it leaves holds invalid pixels only, so a pixel made valid by
\* one iteration is in no later frontier; when it ends, the valid pixels
\* the patches brought still have the colours they brought.
C15_ValidPixelsNeverWritten ==
    [][PaddingStep =>
          /\ \A p \in ValidPixels(atlas) :
                /\ PixelAt(atlas'.image, p) = PixelAt(atlas.image, p)
                /\ PixelAt(atlas'.validity_mask, p) = 255
                /\ p \notin pad'.invalid_border_pixels
          /\ pad'.invalid_border_pixels \cap ValidPixels(atlas') = {}
          /\ Differing(atlas.image, atlas'.image)
                 \subseteq pad.invalid_border_pixels \ ValidPixels(atlas)
          /\ pad'.pc = "done" => PatchPixelsKept(atlas')]_vars

\* C15 witness: apply_edge_padding has ended on an atlas of padding 1 that
\* holds the patch of four valid pixels and one more patch.
C15_Witness ==
    /\ pad.pc = "done"
    /\ atlas.padding = 1
    /\ Len(atlas.placed) = 2
    /\ \E k \in 1..2 : atlas.placed[k].patch.height = 2
    /\ Cardinality(ValidPixels(atlas)) > Cardinality(pad.valid_on_entry)

(***************************************************************************)
(* Claims about the order of finalize.                                     *)
(***************************************************************************)
\* the places of finalize that follow one another: not running, the scan
\* and the loop of apply_edge_padding, its return, and the statements after
FinalizeOrder ==
    { <<"idle", "idle">>, <<"idle", "scan">>, <<"scan", "loop">>,
      <<"loop", "loop">>, <<"loop", "done">>, <<"done", "merge">>,
      <<"merge", "mark">>, <<"mark", "idle">> }

\* C16: finalize on an atlas that is not finalized first releases the
\* packer, then runs apply_edge_padding, all of it with the packer released
\* and the validity mask in place, then releases the validity mask, then
\* runs merge_texcoords, and then sets finalized; each of these steps
\* changes nothing but what it is for.  apply_edge_padding is never entered
\* with the mask released, is entered at most once on an atlas, and has run
\* exactly once on a finalized atlas.
C16_FinalizeOrder ==
    [][/\ <<pad.pc, pad'.pc>> \in FinalizeOrder
       /\ (pad.pc = "idle" /\ pad'.pc = "scan") =>
              /\ ~atlas.finalized /\ atlas.bin.live /\ atlas.edge_padded = 0
              /\ ~atlas'.bin.live
              /\ [atlas' EXCEPT !.bin = atlas.bin] = atlas
       /\ PaddingStep =>
              /\ ~atlas.bin.live /\ atlas.validity_mask.live
              /\ atlas'.validity_mask.live
              /\ atlas'.texcoords = atlas.texcoords
              /\ atlas'.texcoord_ids = <<>>
              /\ ~atlas'.finalized
       /\ pad.pc = "done" =>
              /\ atlas.edge_padded = 1 /\ atlas.validity_mask.live
              /\ ~atlas'.validity_mask.live
              /\ [atlas' EXCEPT !.validity_mask = atlas.validity_mask] = atlas
       /\ pad.pc = "merge" =>
              /\ ~atlas.validity_mask.live /\ atlas.texcoord_ids = <<>>
              /\ Len(atlas'.texcoord_ids) = Len(atlas.texcoords)
              /\ [atlas' EXCEPT !.texcoords = atlas.texcoords,
                                !.texcoord_ids = atlas.texcoord_ids] = atlas
              /\ ~atlas'.finalized
       /\ pad.pc = "mark" =>
              /\ ~atlas.finalized /\ atlas'.finalized
              /\ [atlas' EXCEPT !.finalized = FALSE] = atlas
       /\ atlas'.edge_padded <= 1
       /\ atlas'.finalized =>
              /\ atlas'.edge_padded = 1
              /\ ~atlas'.bin.live /\ ~atlas'.validity_mask.live]_vars

\* C16 witness: finalize has returned on an atlas with two patches and at
\* least nine coordinate indices, after one run of apply_edge_padding.
C16_Witness ==
    /\ ret = [op |-> "finalize", val |-> "ok"]
    /\ atlas.finalized
    /\ atlas.edge_padded = 1
    /\ Len(atlas.placed) = 2
    /\ Len(atlas.texcoord_ids) >= 9

(***************************************************************************)
(* Claims about the coordinates of the faces.                              *)
(***************************************************************************)
\* the number of faces of the first k inserted patches
RECURSIVE FacesUpTo(_, _)
FacesUpTo(a, k) ==
    IF k = 0 THEN 0 ELSE FacesUpTo(a, k - 1) + Len(a.placed[k].patch.faces)

\* the coordinate (in units of 1 / size) that corner j of the f-th face of
\* the k-th inserted patch has in the atlas
CornerOf(a, k, f, j) ==
    LET q == a.placed[k].patch
        r == a.placed[k].rect
        rel == q.texcoords[3 * (f - 1) + j]
    IN  <<rel[1] + r.min_x + a.padding, rel[2] + r.min_y + a.padding>>

\* merge_texcoords has run on the atlas
Merged == atlas.finalized \/ pad.pc = "mark"

\* C17: after any calls of insert, with patches of three coordinates per
\* face: until merge_texcoords runs, texcoords has 3 entries per entry of
\* faces, and entries 3 i .. 3 i + 2 are the three corners of face i, the
\* f-th face of the k-th inserted patch; once merge_texcoords has run,
\* texcoord_ids has 3 entries per face, each of them a position of the
\* table texcoords, where the corner of the face is found.
C17_ThreeCoordinatesPerFace ==
    /\ atlas.state = "live"
    /\ Len(atlas.faces) = FacesUpTo(atlas, Len(atlas.placed))
    /\ IF Merged
       THEN /\ Len(atlas.texcoord_ids) = 3 * Len(atlas.faces)
            /\ \A n \in 1..Len(atlas.texcoord_ids) :
                  atlas.texcoord_ids[n] \in 0..(Len(atlas.texcoords) - 1)
       ELSE /\ Len(atlas.texcoords) = 3 * Len(atlas.faces)
            /\ atlas.texcoord_ids = <<>>
    /\ \A k \in 1..Len(atlas.placed) :
          \A f \in 1..Len(atlas.placed[k].patch.faces) :
              LET i == FacesUpTo(atlas, k - 1) + f - 1
              IN  /\ atlas.faces[i + 1] = atlas.placed[k].patch.faces[f]
                  /\ \A j \in 1..3 :
                        IF Merged
                        THEN atlas.texcoords[atlas.texcoord_ids[3 * i + j] + 1]
                                 = CornerOf(atlas, k, f, j)
                        ELSE atlas.texcoords[3 * i + j] = CornerOf(atlas, k, f, j)

\* C17 witness: finalize has returned on an atlas that holds the patch of
\* two faces and one more patch; its table is shorter than its index list.
C17_Witness ==
    /\ atlas.finalized
    /\ Len(atlas.faces) = 3
    /\ Len(atlas.texcoord_ids) = 9
    /\ Len(atlas.texcoords) < 9
    /\ ret = [op |-> "finalize", val |-> "ok"]

(***************************************************************************)
(* Claims about the arithmetic of calculate_texture_size.                  *)
(***************************************************************************)
\* the padded width and height of every patch are at most MAX_TEXTURE_SIZE
PaddedWithinMaximum(ps) ==
    \A i \in 1..Len(ps) :
        /\ RefPaddedW(ps[i], 32) <= MAX_TEXTURE_SIZE
        /\ RefPaddedH(ps[i], 32) <= MAX_TEXTURE_SIZE

\* C18: for every patch list with padded dimensions up to MAX_TEXTURE_SIZE,
\* the sum of the padded areas of the scanned patches stays below 2^32 at
\* every candidate size, so that total_area is the true sum, and the size
\* calculate_texture_size returns is the size unbounded arithmetic gives.
C18_TotalAreaNeverWraps ==
    (cts.pc = "done" /\ PaddedWithinMaximum(cts.texture_patches)) =>
        /\ RefNoWrap(cts.texture_patches)
        /\ cts.result = RefSize(cts.texture_patches)

\* C19: the padding calculate_texture_size assumes at the size of the atlas
\* is the padding of the atlas, so the padded rectangle of a patch in the
\* heuristic has the width and height of the rectangle insert requests from
\* the packer.
C19_HeuristicPaddingIsAtlasPadding ==
    atlas.state = "live" =>
        /\ cts_padding(atlas.size) = atlas.padding
        /\ \A i \in 1..Len(gen.texture_patches) :
              LET texture_patch == gen.texture_patches[i]
                  rect == insert_rect(atlas, texture_patch)
              IN  /\ RectWidth(rect)
                         = get_width(texture_patch) + 2 * cts_padding(atlas.size)
                  /\ RectHeight(rect)
                         = get_height(texture_patch) + 2 * cts_padding(atlas.size)

=============================================================================
